---- MODULE Spec2Model ----
(***************************************************************************)
(* Model of build_assets.py, the Salford theme asset build script: the     *)
(* filesystem it reads and writes, its copy / compile / concatenate        *)
(* operations, the mode dispatcher main() and the watch-mode polling loop. *)
(***************************************************************************)
EXTENDS Naturals, Sequences, FiniteSets

VARIABLES
    argv,               \* sys.argv[1:], the command-line arguments
    DJANGO_AVAILABLE,   \* import-time probe of the framework
    SASS_AVAILABLE,     \* import-time probe of the SCSS compiler
    journals,           \* Journal.objects.all(): the tenant ids, in the order returned
    fs,                 \* the filesystem: path -> node
    fs0,                \* the filesystem when the process started
    mtime,              \* st_mtime of the source salford.css
    pc,                 \* the process's position
    exc,                \* the exception that reached the top level ("none" if none)
    ret,                \* the return value of the last operation called
    trace,              \* calls, compiles and file writes performed, in order
    console,            \* the outcome messages printed, in order (banners left out)
    last_modified,      \* watch_and_copy's local
    current_modified,   \* watch_and_copy's local
    jidx,               \* process_journals' loop position
    calls               \* number of calls made by a driver of a single operation

vars == <<argv, DJANGO_AVAILABLE, SASS_AVAILABLE, journals, fs, fs0, mtime, pc, exc, ret,
          trace, console, last_modified, current_modified, jidx, calls>>

\* What the process never assigns.
inputs == <<argv, DJANGO_AVAILABLE, SASS_AVAILABLE, journals, fs0>>

(***************************************************************************)
(* Bounds of the model.                                                    *)
(***************************************************************************)
MaxMtime == 2
MaxCalls == 2

(***************************************************************************)
(* Paths. A path is a sequence of components below BASE_DIR.               *)
(***************************************************************************)
SRC == <<"themes", "salford", "assets">>
DST == <<"static", "salford">>
JRN == <<"files", "styling", "journals">>

JsNames == <<"admin.js", "app.js", "footnotes.js", "table_of_contents.js",
             "text_resize.js", "toastr.js">>

JournalIds == {1, 2}

IdStr(id) == CASE id = 1 -> "1" [] id = 2 -> "2" [] OTHER -> "3"

OverrideName(id) ==
    CASE id = 1 -> "journal1_override.css"
      [] id = 2 -> "journal2_override.css"
      [] OTHER  -> "journal3_override.css"

JournalFileNames == {"a.scss", "b.scss", "notes.txt"}

Suffix(name) ==
    CASE name \in {"a.scss", "b.scss", "app.scss"} -> ".scss"
      [] name \in {"salford.css", "app.css"} -> ".css"
      [] name = "notes.txt" -> ".txt"
      [] OTHER -> ""

RelDirs == {<<>>, <<"css">>, <<"scss">>, <<"js">>, <<"fonts">>, <<"img">>}

RelFiles ==
    {<<"css", "salford.css">>, <<"css", "app.css">>, <<"scss", "app.scss">>,
     <<"img", "logo.png">>, <<"img", "stale.png">>}
    \cup {<<"css", OverrideName(id)>> : id \in JournalIds}
    \cup {<<"js", JsNames[i]>> : i \in DOMAIN JsNames}

Rel == RelDirs \cup RelFiles

JournalDir(id) == JRN \o <<IdStr(id)>>

Paths ==
    {SRC \o r : r \in Rel} \cup {DST \o r : r \in Rel}
    \cup {JournalDir(id) : id \in JournalIds}
    \cup {JournalDir(id) \o <<n>> : id \in JournalIds, n \in JournalFileNames}

(***************************************************************************)
(* Nodes and the primitive filesystem operations (pathlib, shutil, open).  *)
(* An operation's result is [fs, exc]: the new filesystem and the          *)
(* exception raised ("none" when it returns normally).                     *)
(***************************************************************************)
Absent == [kind |-> "absent", data |-> <<>>]
Dir == [kind |-> "dir", data |-> <<>>]
File(d) == [kind |-> "file", data |-> d]

IsPrefix(a, p) == Len(a) <= Len(p) /\ SubSeq(p, 1, Len(a)) = a
Parent(p) == SubSeq(p, 1, Len(p) - 1)
Name(p) == p[Len(p)]

\* Path.exists()
Exists(f, p) == f[p].kind # "absent"
IsDir(f, p) == f[p].kind = "dir"
IsFile(f, p) == f[p].kind = "file"

\* Ancestors of the three roots are directories of the checkout, always there.
ParentIsDir(f, p) == Parent(p) \in Paths => IsDir(f, Parent(p))

Ok(f) == [fs |-> f, exc |-> "none"]
Raise(f, e) == [fs |-> f, exc |-> e]

\* Path.mkdir(parents=True, exist_ok=True)
Mkdir(f, d) ==
    IF \E p \in Paths : IsPrefix(p, d) /\ IsFile(f, p)
    THEN Raise(f, "FileExistsError")
    ELSE Ok([p \in Paths |-> IF IsPrefix(p, d) /\ ~Exists(f, p) THEN Dir ELSE f[p]])

\* shutil.rmtree(d)
Rmtree(f, d) ==
    IF ~IsDir(f, d)
    THEN Raise(f, "NotADirectoryError")
    ELSE Ok([p \in Paths |-> IF IsPrefix(d, p) THEN Absent ELSE f[p]])

\* shutil.copytree(s, d): d must not exist; every node below s is copied.
Copytree(f, s, d) ==
    IF ~IsDir(f, s) THEN Raise(f, "NotADirectoryError")
    ELSE IF Exists(f, d) THEN Raise(f, "FileExistsError")
    ELSE Ok([p \in Paths |->
                IF IsPrefix(d, p)
                THEN f[s \o SubSeq(p, Len(d) + 1, Len(p))]
                ELSE f[p]])

\* shutil.copy2(s, d)
Copy2(f, s, d) ==
    IF ~IsFile(f, s) THEN Raise(f, "FileNotFoundError")
    ELSE IF ~ParentIsDir(f, d) THEN Raise(f, "FileNotFoundError")
    ELSE IF IsDir(f, d) THEN Raise(f, "IsADirectoryError")
    ELSE Ok([f EXCEPT ![d] = f[s]])

\* open(p, "w").write(data)
OpenWrite(f, p, data) ==
    IF ~ParentIsDir(f, p) THEN Raise(f, "FileNotFoundError")
    ELSE IF IsDir(f, p) THEN Raise(f, "IsADirectoryError")
    ELSE Ok([f EXCEPT ![p] = File(data)])

\* sass.compile(filename=...): the compiled text is not the source text.
SassCompile(data) == <<"/*css*/">> \o data

\* The subtree below root d, by relative path.
Tree(f, d) == [r \in Rel |-> f[d \o r]]

(***************************************************************************)
(* The script's operations as functions of the filesystem. A result is     *)
(* [fs, exc, ret, out, ev]: the new filesystem, the exception raised, the  *)
(* return value, the console messages and the calls / compiles / writes.   *)
(***************************************************************************)
Ev(e, p) == [ev |-> e, path |-> p]

Res(f, e, r, o, v) == [fs |-> f, exc |-> e, ret |-> r, out |-> o, ev |-> v]

source_css == SRC \o <<"css", "salford.css">>
dest_css_dir == DST \o <<"css">>
dest_css == dest_css_dir \o <<"salford.css">>
app_scss_file == SRC \o <<"scss", "app.scss">>
app_css_file == DST \o <<"css", "app.css">>
js_dest_path == DST \o <<"js", "app.js">>
override_css_dir == DST \o <<"css">>
OverrideFile(id) == override_css_dir \o <<OverrideName(id)>>

\* copy_css_assets(), lines 42-58
CopyCssAssets(f) ==
    LET m == Mkdir(f, dest_css_dir) IN
    IF m.exc # "none"
    THEN Res(m.fs, m.exc, "None", <<>>, <<Ev("copy_css_assets", <<>>)>>)
    ELSE IF Exists(m.fs, source_css)
    THEN LET c == Copy2(m.fs, source_css, dest_css) IN
         IF c.exc # "none"
         THEN Res(c.fs, c.exc, "None", <<>>, <<Ev("copy_css_assets", <<>>)>>)
         ELSE Res(c.fs, "none", "True", <<"copied_css">>, <<Ev("copy_css_assets", <<>>)>>)
    ELSE Res(m.fs, "none", "False", <<"css_not_found">>, <<Ev("copy_css_assets", <<>>)>>)

\* A copy that merges into the destination instead of replacing it.
CopyAllAssetsMerge(f) ==
    IF Exists(f, SRC)
    THEN Res([p \in Paths |->
                 IF IsPrefix(DST, p) /\ Exists(f, SRC \o SubSeq(p, Len(DST) + 1, Len(p)))
                 THEN f[SRC \o SubSeq(p, Len(DST) + 1, Len(p))]
                 ELSE f[p]],
             "none", "True", <<"copied_all">>, <<Ev("copy_all_assets", <<>>)>>)
    ELSE Res(f, "none", "False", <<"assets_not_found">>, <<Ev("copy_all_assets", <<>>)>>)

\* copy_all_assets(), lines 61-75
CopyAllAssets(f) ==
    IF Exists(f, SRC)
    THEN LET d == IF Exists(f, DST) THEN Rmtree(f, DST) ELSE Ok(f) IN
         IF d.exc # "none"
         THEN Res(d.fs, d.exc, "None", <<>>, <<Ev("copy_all_assets", <<>>)>>)
         ELSE LET c == Copytree(d.fs, SRC, DST) IN
              IF c.exc # "none"
              THEN Res(c.fs, c.exc, "None", <<>>, <<Ev("copy_all_assets", <<>>)>>)
              ELSE Res(c.fs, "none", "True", <<"copied_all">>,
                       <<Ev("copy_all_assets", <<>>)>>)
    ELSE Res(f, "none", "False", <<"assets_not_found">>, <<Ev("copy_all_assets", <<>>)>>)

\* process_scss(), lines 107-134
ProcessScss(f) ==
    IF ~DJANGO_AVAILABLE
    THEN Res(f, "none", "None", <<"skip_scss_no_django">>, <<Ev("process_scss", <<>>)>>)
    ELSE IF ~SASS_AVAILABLE
    THEN Res(f, "none", "None", <<"skip_scss_no_sass">>, <<Ev("process_scss", <<>>)>>)
    ELSE IF Exists(f, app_scss_file)
    THEN LET w == OpenWrite(f, app_css_file, SassCompile(f[app_scss_file].data)) IN
         IF w.exc # "none"
         THEN Res(w.fs, w.exc, "None", <<>>,
                  <<Ev("process_scss", <<>>), Ev("compile", app_scss_file)>>)
         ELSE Res(w.fs, "none", "None", <<"compiled_scss">>,
                  <<Ev("process_scss", <<>>), Ev("compile", app_scss_file),
                    Ev("write", app_css_file)>>)
    ELSE Res(f, "none", "None", <<"scss_not_found">>, <<Ev("process_scss", <<>>)>>)

\* source_paths, lines 143-150
source_paths == [i \in DOMAIN JsNames |-> SRC \o <<"js", JsNames[i]>>]

\* existing_files, line 158
ExistingFiles(f) == SelectSeq(source_paths, LAMBDA p : Exists(f, p))

\* A concatenation that writes the files in the reverse of the list order.
RECURSIVE ConcatReversed(_, _)
ConcatReversed(f, files) ==
    IF files = <<>> THEN <<>>
    ELSE ConcatReversed(f, Tail(files)) \o f[Head(files)].data

\* The loop of lines 161-163: the files' contents, written one after another.
RECURSIVE Concat(_, _)
Concat(f, files) ==
    IF files = <<>> THEN <<>>
    ELSE f[Head(files)].data \o Concat(f, Tail(files))

\* The body of process_js() after its guard, lines 143-166
ConcatenateJs(f) ==
    LET m == Mkdir(f, Parent(js_dest_path)) IN
    IF m.exc # "none"
    THEN Res(m.fs, m.exc, "None", <<>>, <<Ev("process_js", <<>>)>>)
    ELSE IF ExistingFiles(m.fs) # <<>>
    THEN LET w == OpenWrite(m.fs, js_dest_path, Concat(m.fs, ExistingFiles(m.fs))) IN
         IF w.exc # "none"
         THEN Res(w.fs, w.exc, "None", <<>>, <<Ev("process_js", <<>>)>>)
         ELSE Res(w.fs, "none", "None", <<"processed_js">>,
                  <<Ev("process_js", <<>>), Ev("write", js_dest_path)>>)
    ELSE Res(m.fs, "none", "None", <<"no_js_found">>, <<Ev("process_js", <<>>)>>)

\* A process_js() that has lost its guard on the framework.
ProcessJsUnguarded(f) == ConcatenateJs(f)

\* process_js(), lines 137-166
ProcessJs(f) ==
    IF ~DJANGO_AVAILABLE
    THEN Res(f, "none", "None", <<"skip_js_no_django">>, <<Ev("process_js", <<>>)>>)
    ELSE ConcatenateJs(f)

\* folders, line 207, and the journal CSS directory of line 213
Folders == <<"css", "js", "fonts", "img", "css">>

RECURSIVE MkdirAll(_, _)
MkdirAll(f, names) ==
    IF names = <<>> THEN Ok(f)
    ELSE LET m == Mkdir(f, DST \o <<Head(names)>>) IN
         IF m.exc # "none" THEN m ELSE MkdirAll(m.fs, Tail(names))

\* create_paths(), lines 204-216
CreatePaths(f) ==
    LET m == MkdirAll(f, Folders) IN
    Res(m.fs, m.exc, "None", <<>>, <<Ev("create_paths", <<>>)>>)

\* scss_files of one journal, lines 182-188
ScssFiles(f, id) ==
    IF Exists(f, JournalDir(id))
    THEN {JournalDir(id) \o <<n>> : n \in
             {x \in JournalFileNames :
                 Exists(f, JournalDir(id) \o <<x>>) /\ Suffix(x) = ".scss"}}
    ELSE {}

\* One journal of process_journals' loop, lines 190-201, with `first` the file
\* that iterdir() returned first.
ProcessJournal(f, id, first) ==
    LET w == OpenWrite(f, OverrideFile(id), SassCompile(f[first].data)) IN
    IF w.exc # "none"
    THEN Res(w.fs, w.exc, "None", <<"journal_overrides">>, <<Ev("compile", first)>>)
    ELSE Res(w.fs, "none", "None", <<"journal_overrides">>,
             <<Ev("compile", first), Ev("write", OverrideFile(id))>>)

\* A default mode of help instead of copy.
ModeDefaultHelp(args) == IF Len(args) > 0 THEN args[1] ELSE "help"

\* mode, line 281
Mode(args) == IF Len(args) > 0 THEN args[1] ELSE "copy"

\* The branch of main() taken, lines 283-302
Branch(mode) ==
    IF mode = "help" \/ mode = "--help" \/ mode = "-h" THEN "show_help"
    ELSE IF mode = "copy" THEN "build_simple"
    ELSE IF mode = "watch" THEN "watch"
    ELSE IF mode = "build" THEN "build_full"
    ELSE "unknown"

\* A comparison that also fires when the timestamp has not moved.
ChangedOrSame(current, last) == current >= last

\* The comparison of line 95
Changed(current, last) == current > last

(***************************************************************************)
(* Initial filesystems. A filesystem is given by the set of paths present; *)
(* ancestors of a present path are present. A source file holds its own    *)
(* name, a file left in the destination by an earlier run holds "old".     *)
(***************************************************************************)
FilePaths ==
    {SRC \o r : r \in RelFiles} \cup {DST \o r : r \in RelFiles}
    \cup {JournalDir(id) \o <<n>> : id \in JournalIds, n \in JournalFileNames}

Close(S) == S \cup {q \in Paths : \E p \in S : IsPrefix(q, p)}

InitialData(p) ==
    IF IsPrefix(DST, p) THEN <<"old">>
    ELSE IF Name(p) = "footnotes.js" THEN <<>>
    ELSE IF Name(p) = "toastr.js" THEN <<"toastr.js", "eof">>
    ELSE <<Name(p)>>

MkFS(S) ==
    LET present == Close(S) IN
    [p \in Paths |->
        IF p \notin present THEN Absent
        ELSE IF p \in FilePaths THEN File(InitialData(p))
        ELSE Dir]

SrcFeatures ==
    {SRC \o <<"css", "salford.css">>, SRC \o <<"scss", "app.scss">>,
     SRC \o <<"js", "admin.js">>, SRC \o <<"js", "toastr.js">>}

\* The source tree: absent, or present with any of the feature files and possibly
\* an empty css directory.
SrcChoices ==
    {{}} \cup {{SRC} \cup F \cup E : F \in SUBSET SrcFeatures, E \in {{}, {SRC \o <<"css">>}}}

\* The destination tree: absent, empty, or left by an earlier run.
DstChoices ==
    {{}, {DST},
     {DST \o <<"css", "salford.css">>, DST \o <<"css", "app.css">>,
      DST \o <<"js", "app.js">>, DST \o <<"img", "stale.png">>}}

JournalDirChoices(id) ==
    IF id = 1
    THEN {{}, {JournalDir(id) \o <<"notes.txt">>}, {JournalDir(id) \o <<"a.scss">>},
          {JournalDir(id) \o <<"a.scss">>, JournalDir(id) \o <<"b.scss">>}}
    ELSE {{}, {JournalDir(id) \o <<"a.scss">>}}

JournalLists == {<<1>>, <<2, 1>>}

InitProcess(start) ==
    /\ pc = start
    /\ exc = "none"
    /\ ret = "None"
    /\ trace = <<>>
    /\ console = <<>>
    /\ last_modified = 0
    /\ current_modified = 0
    /\ jidx = 0
    /\ calls = 0
    /\ mtime = 0

Args ==
    {<<>>, <<"copy">>, <<"watch">>, <<"build">>, <<"help">>, <<"--help">>, <<"-h">>,
     <<"deploy">>, <<"COPY">>}

Init ==
    /\ argv \in Args
    /\ DJANGO_AVAILABLE \in BOOLEAN
    /\ SASS_AVAILABLE \in BOOLEAN
    /\ \/ /\ journals = <<>>
          /\ \E s \in SrcChoices, d \in DstChoices : fs = MkFS(s \cup d)
       \/ /\ journals \in JournalLists
          /\ \E s \in SrcChoices, d \in DstChoices,
                j1 \in JournalDirChoices(1), j2 \in JournalDirChoices(2) :
                fs = MkFS(s \cup d \cup j1 \cup j2)
    /\ fs0 = fs
    /\ InitProcess("main")

(***************************************************************************)
(* The process. Each action is one call (or one loop iteration) of the     *)
(* script; an exception no handler catches ends the process at "raised".   *)
(***************************************************************************)
Apply(r, next) ==
    /\ fs' = r.fs
    /\ trace' = trace \o r.ev
    /\ console' = console \o r.out
    /\ ret' = r.ret
    /\ IF r.exc # "none"
       THEN pc' = "raised" /\ exc' = r.exc
       ELSE pc' = next /\ exc' = exc

\* main(), lines 279-302: the branch on mode
main ==
    /\ pc = "main"
    /\ LET b == Branch(Mode(argv)) IN
       /\ pc' = CASE b = "show_help" -> "show_help"
                  [] b = "build_simple" -> "simple_css"
                  [] b = "watch" -> "watch_initial"
                  [] b = "build_full" -> "create_paths"
                  [] OTHER -> "show_help"
       /\ console' = IF b = "unknown" THEN console \o <<"unknown_mode">> ELSE console
    /\ UNCHANGED <<inputs, fs, mtime, exc, ret,
                   trace, last_modified, current_modified, jidx, calls>>

\* show_help(), lines 261-276
show_help ==
    /\ pc = "show_help"
    /\ console' = console \o <<"usage">>
    /\ trace' = trace \o <<Ev("show_help", <<>>)>>
    /\ pc' = "done"
    /\ UNCHANGED <<inputs, fs, mtime, exc, ret,
                   last_modified, current_modified, jidx, calls>>

AfterCopyCss(at) ==
    CASE at = "simple_css" -> "simple_all"
      [] at = "watch_initial" -> "watch_and_copy"
      [] OTHER -> "full_all"

\* copy_css_assets() called at lines 255, 294, 226
copy_css_assets ==
    /\ pc \in {"simple_css", "watch_initial", "full_css"}
    /\ Apply(CopyCssAssets(fs), AfterCopyCss(pc))
    /\ UNCHANGED <<inputs, mtime,
                   last_modified, current_modified, jidx, calls>>

\* copy_all_assets() called at lines 256, 229
copy_all_assets ==
    /\ pc \in {"simple_all", "full_all"}
    /\ Apply(CopyAllAssets(fs), IF pc = "simple_all" THEN "done" ELSE "process_scss")
    /\ UNCHANGED <<inputs, mtime,
                   last_modified, current_modified, jidx, calls>>

\* create_paths() called at line 223
create_paths ==
    /\ pc = "create_paths"
    /\ Apply(CreatePaths(fs), "full_css")
    /\ UNCHANGED <<inputs, mtime,
                   last_modified, current_modified, jidx, calls>>

\* process_scss() called at line 232
process_scss ==
    /\ pc = "process_scss"
    /\ Apply(ProcessScss(fs), "process_js")
    /\ UNCHANGED <<inputs, mtime,
                   last_modified, current_modified, jidx, calls>>

\* process_js() called at line 235, and the branch of line 237
process_js ==
    /\ pc = "process_js"
    /\ Apply(ProcessJs(fs), IF DJANGO_AVAILABLE THEN "process_journals" ELSE "done")
    /\ UNCHANGED <<inputs, mtime,
                   last_modified, current_modified, jidx, calls>>

\* process_journals() called at line 243: its guards and the query, lines 171-179
process_journals ==
    /\ pc = "process_journals"
    /\ trace' = trace \o <<Ev("process_journals", <<>>)>>
    /\ IF ~DJANGO_AVAILABLE
       THEN /\ console' = console \o <<"skip_journals_no_django">>
            /\ pc' = "collectstatic"
            /\ jidx' = jidx
       ELSE IF ~SASS_AVAILABLE
       THEN /\ console' = console \o <<"skip_journals_no_sass">>
            /\ pc' = "collectstatic"
            /\ jidx' = jidx
       ELSE /\ console' = console
            /\ pc' = IF journals = <<>> THEN "collectstatic" ELSE "journals_loop"
            /\ jidx' = 1
    /\ UNCHANGED <<inputs, fs, mtime, exc, ret,
                   last_modified, current_modified, calls>>

AfterJournal == IF jidx = Len(journals) THEN "collectstatic" ELSE "journals_loop"

\* One iteration of the loop of lines 181-201
process_journal ==
    /\ pc = "journals_loop"
    /\ LET id == journals[jidx] IN
       IF ScssFiles(fs, id) = {}
       THEN /\ pc' = AfterJournal
            /\ UNCHANGED <<fs, trace, console, ret, exc>>
       ELSE \E first \in ScssFiles(fs, id) :
                Apply(ProcessJournal(fs, id, first), AfterJournal)
    /\ jidx' = jidx + 1
    /\ UNCHANGED <<inputs, mtime,
                   last_modified, current_modified, calls>>

\* call_command("collectstatic", "--noinput"), line 246
call_command ==
    /\ pc = "collectstatic"
    /\ trace' = trace \o <<Ev("call_command", <<"collectstatic", "--noinput">>)>>
    /\ pc' = "done"
    /\ UNCHANGED <<inputs, fs, mtime, exc, ret,
                   console, last_modified, current_modified, jidx, calls>>

(***************************************************************************)
(* watch_and_copy(), lines 78-104.                                         *)
(***************************************************************************)
\* lines 80-87
watch_and_copy ==
    /\ pc = "watch_and_copy"
    /\ trace' = trace \o <<Ev("watch_and_copy", <<>>)>>
    /\ IF ~Exists(fs, source_css)
       THEN console' = console \o <<"css_not_found">> /\ pc' = "done"
       ELSE console' = console \o <<"watching">> /\ pc' = "watch_baseline"
    /\ UNCHANGED <<inputs, fs, mtime, exc, ret,
                   last_modified, current_modified, jidx, calls>>

\* line 89: source_css.stat() raises when the file is gone
watch_baseline ==
    /\ pc = "watch_baseline"
    /\ IF Exists(fs, source_css)
       THEN last_modified' = mtime /\ pc' = "watch_stat" /\ exc' = exc
       ELSE last_modified' = last_modified /\ pc' = "raised" /\ exc' = "FileNotFoundError"
    /\ UNCHANGED <<inputs, fs, mtime, ret,
                   trace, console, current_modified, jidx, calls>>

\* line 93
watch_stat ==
    /\ pc = "watch_stat"
    /\ IF Exists(fs, source_css)
       THEN current_modified' = mtime /\ pc' = "watch_check" /\ exc' = exc
       ELSE current_modified' = current_modified /\ pc' = "raised"
            /\ exc' = "FileNotFoundError"
    /\ UNCHANGED <<inputs, fs, mtime, ret,
                   trace, console, last_modified, jidx, calls>>

\* lines 95-99
watch_check ==
    /\ pc = "watch_check"
    /\ IF Changed(current_modified, last_modified)
       THEN LET r == CopyCssAssets(fs) IN
            /\ fs' = r.fs
            /\ trace' = trace \o r.ev
            /\ ret' = r.ret
            /\ IF r.exc # "none"
               THEN /\ pc' = "raised"
                    /\ exc' = r.exc
                    /\ console' = console \o <<"file_changed">>
                    /\ last_modified' = last_modified
               ELSE /\ pc' = "watch_sleep"
                    /\ exc' = exc
                    /\ console' = console \o <<"file_changed">> \o r.out
                                    \o (IF r.ret = "True" THEN <<"css_updated">> ELSE <<>>)
                    /\ last_modified' = current_modified
       ELSE /\ pc' = "watch_sleep"
            /\ UNCHANGED <<fs, trace, ret, exc, console, last_modified>>
    /\ UNCHANGED <<inputs, mtime,
                   current_modified, jidx, calls>>

\* line 101
watch_sleep ==
    /\ pc = "watch_sleep"
    /\ pc' = "watch_stat"
    /\ UNCHANGED <<inputs, fs, mtime, exc, ret,
                   trace, console, last_modified, current_modified, jidx, calls>>

\* lines 103-104: Ctrl+C inside the try block
KeyboardInterrupt ==
    /\ pc \in {"watch_stat", "watch_check", "watch_sleep"}
    /\ console' = console \o <<"stopped">>
    /\ pc' = "done"
    /\ UNCHANGED <<inputs, fs, mtime, exc, ret,
                   trace, last_modified, current_modified, jidx, calls>>

Watcher ==
    \/ watch_and_copy
    \/ watch_baseline
    \/ watch_stat
    \/ watch_check
    \/ watch_sleep

Next ==
    \/ main
    \/ show_help
    \/ copy_css_assets
    \/ copy_all_assets
    \/ create_paths
    \/ process_scss
    \/ process_js
    \/ process_journals
    \/ process_journal
    \/ call_command
    \/ Watcher
    \/ KeyboardInterrupt

Spec == Init /\ [][Next]_vars

(***************************************************************************)
(* Watch mode with an external writer of the source salford.css: an editor *)
(* saving the file (its timestamp advances) or removing it.                *)
(***************************************************************************)
EditContents == {<<"red">>, <<"blue">>}

WriterModify ==
    /\ mtime < MaxMtime
    /\ IsDir(fs, Parent(source_css))
    /\ \E d \in EditContents :
          /\ fs[source_css] # File(d)
          /\ fs' = [fs EXCEPT ![source_css] = File(d)]
    /\ mtime' = mtime + 1
    /\ UNCHANGED <<inputs, pc, exc, ret, trace, console, last_modified,
                   current_modified, jidx, calls>>

WriterDelete ==
    /\ Exists(fs, source_css)
    /\ fs' = [fs EXCEPT ![source_css] = Absent]
    /\ UNCHANGED <<inputs, mtime, pc, exc, ret, trace, console, last_modified,
                   current_modified, jidx, calls>>

WatchSrcChoices == {{}, {SRC \o <<"css">>}, {source_css}}

InitWatch ==
    /\ argv = <<"watch">>
    /\ DJANGO_AVAILABLE = FALSE
    /\ SASS_AVAILABLE = FALSE
    /\ journals = <<>>
    /\ \E s \in WatchSrcChoices, d \in DstChoices : fs = MkFS(s \cup d)
    /\ fs0 = fs
    /\ InitProcess("main")

NextWatch ==
    \/ main
    \/ copy_css_assets
    \/ Watcher
    \/ KeyboardInterrupt
    \/ WriterModify
    \/ WriterDelete

SpecWatch == InitWatch /\ [][NextWatch]_vars

\* The watcher left alone with a writer that only saves: the process is scheduled
\* as long as it has a step to take, the writer may stop at any time.
InitFairWatch ==
    /\ argv = <<"watch">>
    /\ DJANGO_AVAILABLE = FALSE
    /\ SASS_AVAILABLE = FALSE
    /\ journals = <<>>
    /\ \E d \in DstChoices : fs = MkFS({source_css} \cup d)
    /\ fs0 = fs
    /\ InitProcess("main")

Process ==
    \/ main
    \/ copy_css_assets
    \/ Watcher

NextFairWatch ==
    \/ Process
    \/ WriterModify

FairWatchSpec == InitFairWatch /\ [][NextFairWatch]_vars /\ WF_vars(Process)

(***************************************************************************)
(* Drivers of a single operation on every filesystem of a bounded family.  *)
(***************************************************************************)
JsSources == {source_paths[i] : i \in DOMAIN source_paths}

InitJs ==
    /\ argv = <<"build">>
    /\ DJANGO_AVAILABLE \in BOOLEAN
    /\ SASS_AVAILABLE = FALSE
    /\ journals = <<>>
    /\ \E F \in SUBSET JsSources, d \in DstChoices : fs = MkFS({SRC} \cup F \cup d)
    /\ fs0 = fs
    /\ InitProcess("call")

call_process_js ==
    /\ pc = "call"
    /\ Apply(ProcessJs(fs), "returned")
    /\ calls' = calls + 1
    /\ UNCHANGED <<inputs, mtime, last_modified, current_modified, jidx>>

SpecJs == InitJs /\ [][call_process_js]_vars

CopySrcFeatures == SrcFeatures \cup {SRC \o <<"img", "logo.png">>}

CopyDstFeatures ==
    {DST \o <<"css", "salford.css">>, DST \o <<"css", "app.css">>,
     DST \o <<"img", "stale.png">>, DST \o <<"fonts">>}

InitCopyAll ==
    /\ argv = <<"copy">>
    /\ DJANGO_AVAILABLE = FALSE
    /\ SASS_AVAILABLE = FALSE
    /\ journals = <<>>
    /\ \E s \in {{}} \cup {{SRC} \cup F : F \in SUBSET CopySrcFeatures},
          d \in {{}} \cup {{DST} \cup G : G \in SUBSET CopyDstFeatures} :
          fs = MkFS(s \cup d)
    /\ fs0 = fs
    /\ InitProcess("call")

call_copy_all_assets ==
    /\ pc \in {"call", "returned"}
    /\ calls < MaxCalls
    /\ Apply(CopyAllAssets(fs), "returned")
    /\ calls' = calls + 1
    /\ UNCHANGED <<inputs, mtime, last_modified, current_modified, jidx>>

\* Between two runs a file is deleted from the source tree.
delete_source_file ==
    /\ pc = "returned"
    /\ calls < MaxCalls
    /\ \E p \in CopySrcFeatures :
          /\ Exists(fs, p)
          /\ fs' = [fs EXCEPT ![p] = Absent]
    /\ pc' = "call"
    /\ UNCHANGED <<inputs, mtime, exc, ret, trace, console, last_modified,
                   current_modified, jidx, calls>>

NextCopyAll ==
    \/ call_copy_all_assets
    \/ delete_source_file

SpecCopyAll == InitCopyAll /\ [][NextCopyAll]_vars

(***************************************************************************)
(* Properties.                                                             *)
(***************************************************************************)
Called(name) == \E i \in DOMAIN trace : trace[i].ev = name
Wrote(p) == \E i \in DOMAIN trace : trace[i] = Ev("write", p)
Copies(t) == Cardinality({i \in DOMAIN t : t[i].ev = "copy_css_assets"})
CallsOf(t) == SelectSeq(t, LAMBDA e : e.ev \notin {"write", "compile"})
CallNames(t) == [i \in DOMAIN CallsOf(t) |-> CallsOf(t)[i].ev]

\* C1: when the source asset tree exists, copy_all_assets() returns True without
\* raising and leaves the destination tree equal to the source tree, node for
\* node (files only in the destination are gone); calling it again on the
\* result changes nothing.
C1_CopyAllReplacesDestination ==
    /\ Exists(fs, SRC) => pc # "raised"
    /\ (pc = "returned" /\ Exists(fs, SRC)) =>
          /\ ret = "True"
          /\ Tree(fs, DST) = Tree(fs, SRC)
          /\ CopyAllAssets(fs).fs = fs

\* A second call has returned, after the first one removed a file that was only
\* in the destination and copied one that was only in the source.
C1_Witness ==
    /\ pc = "returned"
    /\ calls = 2
    /\ Exists(fs0, DST \o <<"img", "stale.png">>)
    /\ ~Exists(fs, DST \o <<"img", "stale.png">>)
    /\ ~Exists(fs0, DST \o <<"img", "logo.png">>)
    /\ IsFile(fs, DST \o <<"img", "logo.png">>)

C2_Tick == pc = "watch_check" /\ pc' = "watch_sleep"

\* C2: a step of the polling loop's comparison triggers exactly one
\* copy_css_assets() and sets last_modified to the timestamp just read when that
\* timestamp is strictly greater than last_modified, and triggers no copy and
\* leaves last_modified alone otherwise; no other step inside the loop copies or
\* changes last_modified.
C2_CopyIffAdvance ==
    [][/\ C2_Tick =>
            IF current_modified > last_modified
            THEN Copies(trace') = Copies(trace) + 1 /\ last_modified' = current_modified
            ELSE Copies(trace') = Copies(trace) /\ last_modified' = last_modified
       /\ (pc \in {"watch_stat", "watch_check", "watch_sleep"} /\ ~C2_Tick) =>
            Copies(trace') = Copies(trace) /\ last_modified' = last_modified]_vars

\* The loop has copied once for an advance it detected and then seen a tick with
\* no advance.
C2_Witness ==
    /\ pc = "watch_sleep"
    /\ Copies(trace) = 2
    /\ last_modified = 1
    /\ current_modified = last_modified
    /\ console[Len(console)] = "css_updated"
    /\ mtime = 2

C3_Unrecognized ==
    Len(argv) > 0 /\ argv[1] \notin {"copy", "watch", "build", "help", "--help", "-h"}

\* C3: with no argument the process does what it does with `copy`: it calls
\* copy_css_assets then copy_all_assets and nothing else, and ends with the
\* filesystem and console those two calls produce from the initial filesystem;
\* with a token that is no mode it prints the unknown-mode line and the usage
\* text, calls nothing but show_help and never changes the filesystem.
C3_ModeDispatch ==
    /\ argv \in {<<>>, <<"copy">>} =>
          /\ pc \in {"main", "simple_css", "simple_all", "done"}
          /\ pc = "done" =>
                /\ trace = <<Ev("copy_css_assets", <<>>), Ev("copy_all_assets", <<>>)>>
                /\ fs = CopyAllAssets(CopyCssAssets(fs0).fs).fs
                /\ console = CopyCssAssets(fs0).out
                                \o CopyAllAssets(CopyCssAssets(fs0).fs).out
    /\ C3_Unrecognized =>
          /\ fs = fs0
          /\ \A i \in DOMAIN trace : trace[i].ev = "show_help"
          /\ pc \in {"main", "show_help", "done"}
          /\ pc = "done" => console = <<"unknown_mode", "usage">>

\* A run with no argument has ended after copying the CSS file and the tree.
C3_Witness ==
    /\ argv = <<>>
    /\ pc = "done"
    /\ ret = "True"
    /\ console = <<"copied_css", "copied_all">>
    /\ fs # fs0

C4_BaseFolders == {<<"css">>, <<"js">>, <<"fonts">>, <<"img">>}

\* C4: with neither the framework nor the compiler, `build` never raises, writes
\* no compiled or concatenated file, compiles nothing and calls neither
\* process_journals nor collectstatic; when it ends it has called create_paths,
\* copy_css_assets, copy_all_assets, process_scss and process_js in that order,
\* and the destination is the copy of the source tree or, without a source
\* tree, the old destination with the four base directories created.
C4_BuildWithoutCollaborators ==
    (argv = <<"build">> /\ ~DJANGO_AVAILABLE /\ ~SASS_AVAILABLE) =>
        /\ pc # "raised"
        /\ \A i \in DOMAIN trace :
              trace[i].ev \notin {"write", "compile", "process_journals", "call_command"}
        /\ pc = "done" =>
              /\ CallNames(trace) = <<"create_paths", "copy_css_assets", "copy_all_assets",
                                      "process_scss", "process_js">>
              /\ Exists(fs0, SRC) => Tree(fs, DST) = Tree(fs0, SRC)
              /\ ~Exists(fs0, SRC) =>
                    /\ \A d \in C4_BaseFolders : IsDir(fs, DST \o d)
                    /\ \A r \in RelFiles : fs[DST \o r] = fs0[DST \o r]

\* A build without collaborators has ended with sources for every skipped step
\* on disk and with the tree copied.
C4_Witness ==
    /\ argv = <<"build">>
    /\ ~DJANGO_AVAILABLE
    /\ ~SASS_AVAILABLE
    /\ pc = "done"
    /\ Exists(fs0, app_scss_file)
    /\ Exists(fs0, SRC \o <<"js", "admin.js">>)
    /\ journals # <<>>
    /\ ScssFiles(fs0, 1) # {}
    /\ Exists(fs0, DST \o <<"img", "stale.png">>)
    /\ ~Exists(fs, DST \o <<"img", "stale.png">>)
    /\ IsFile(fs, DST \o <<"scss", "app.scss">>)

C5_Piece(i) == IF Exists(fs0, source_paths[i]) THEN fs0[source_paths[i]].data ELSE <<>>

C5_Expected ==
    C5_Piece(1) \o C5_Piece(2) \o C5_Piece(3) \o C5_Piece(4) \o C5_Piece(5) \o C5_Piece(6)

\* C5: with the framework available, process_js() leaves in
\* static/salford/js/app.js exactly the contents of the existing source files, in
\* the order of the fixed list and with nothing for a missing one, when at least
\* one exists; when none exists the destination file is as it was.
C5_JsConcatenation ==
    DJANGO_AVAILABLE =>
        /\ pc # "raised"
        /\ pc = "returned" =>
              IF \E i \in DOMAIN source_paths : Exists(fs0, source_paths[i])
              THEN fs[js_dest_path] = File(C5_Expected)
              ELSE fs[js_dest_path] = fs0[js_dest_path]

\* admin.js, app.js and toastr.js exist, the three others do not, and the
\* destination held an older app.js.
C5_Witness ==
    /\ pc = "returned"
    /\ DJANGO_AVAILABLE
    /\ {p \in JsSources : Exists(fs0, p)}
          = {source_paths[1], source_paths[2], source_paths[6]}
    /\ fs0[js_dest_path] = File(<<"old">>)
    /\ fs[js_dest_path] = File(<<"admin.js", "app.js", "toastr.js", "eof">>)

C6_WriteAttempts ==
    IF pc \in {"simple_css", "watch_initial", "full_css"}
          \/ (pc = "watch_check" /\ current_modified > last_modified)
    THEN LET m == Mkdir(fs, dest_css_dir).fs IN
         IF Exists(m, source_css) THEN {[fs |-> m, path |-> dest_css]} ELSE {}
    ELSE IF pc = "process_scss"
    THEN IF DJANGO_AVAILABLE /\ SASS_AVAILABLE /\ Exists(fs, app_scss_file)
         THEN {[fs |-> fs, path |-> app_css_file]}
         ELSE {}
    ELSE IF pc = "process_js"
    THEN LET m == Mkdir(fs, Parent(js_dest_path)).fs IN
         IF DJANGO_AVAILABLE /\ \E i \in DOMAIN source_paths : Exists(m, source_paths[i])
         THEN {[fs |-> m, path |-> js_dest_path]}
         ELSE {}
    ELSE IF pc = "journals_loop"
    THEN IF ScssFiles(fs, journals[jidx]) # {}
         THEN {[fs |-> fs, path |-> OverrideFile(journals[jidx])]}
         ELSE {}
    ELSE {}

\* C6: every write of an output file (salford.css, app.css, app.js, a journal
\* override) is made while the file's directory exists: whenever the process is
\* about to open an output file, the directory it lies in is there.
C6_DirectoryExistsAtWrite ==
    \A w \in C6_WriteAttempts : IsDir(w.fs, Parent(w.path))

\* C7: a missing source path is never fatal: no exception reaches the top level,
\* and a copy that found its source missing has said so on the console.
C7_MissingSourceNeverFatal ==
    /\ pc # "raised"
    /\ ret = "False" =>
          \E i \in DOMAIN console : console[i] \in {"css_not_found", "assets_not_found"}

C8_Steps ==
    IF DJANGO_AVAILABLE
    THEN <<"create_paths", "copy_css_assets", "copy_all_assets", "process_scss",
           "process_js", "process_journals", "call_command">>
    ELSE <<"create_paths", "copy_css_assets", "copy_all_assets", "process_scss",
           "process_js">>

\* C8: `build` calls create_paths, copy_css_assets, copy_all_assets, process_scss
\* and process_js in that order, then, exactly when the framework is available,
\* process_journals and then collectstatic: the calls made so far are always a
\* prefix of that list, and the whole list when the process has ended.
C8_BuildStepOrder ==
    argv = <<"build">> =>
        /\ Len(CallNames(trace)) <= Len(C8_Steps)
        /\ CallNames(trace) = SubSeq(C8_Steps, 1, Len(CallNames(trace)))
        /\ pc \in {"done", "raised"} => CallNames(trace) = C8_Steps

C9_HasScss(id) ==
    \E n \in JournalFileNames : Suffix(n) = ".scss" /\ IsFile(fs0, JournalDir(id) \o <<n>>)

C9_Compiled(id) ==
    Cardinality({i \in DOMAIN trace :
                    trace[i].ev = "compile" /\ IsPrefix(JournalDir(id), trace[i].path)})

\* C9: once process_journals has been called and the process has ended: with
\* framework and compiler, each tenant's override file was written exactly when
\* its directory holds a .scss file, and then exactly one file of the directory
\* was compiled for it (none otherwise); without one of them nothing was
\* compiled for a tenant and no override file was written.
C9_JournalOverrides ==
    (Called("process_journals") /\ pc \in {"done", "raised"}) =>
        IF DJANGO_AVAILABLE /\ SASS_AVAILABLE
        THEN \A k \in DOMAIN journals :
                /\ Wrote(OverrideFile(journals[k])) <=> C9_HasScss(journals[k])
                /\ C9_Compiled(journals[k]) = IF C9_HasScss(journals[k]) THEN 1 ELSE 0
        ELSE \A id \in JournalIds : ~Wrote(OverrideFile(id)) /\ C9_Compiled(id) = 0

\* C10: with the polling loop running and a writer that saves the source file
\* finitely often, the destination salford.css eventually equals the source
\* salford.css and stays equal.
C10_EventuallySynced == <>[](fs[dest_css] = fs[source_css])

====
